---- MODULE Spec2Model ----
(***************************************************************************)
(* LinkedIn-Agent: the posting workflow (src/src/agent.py), its three     *)
(* graph nodes (src/src/nodes/*.py) and the progress store                *)
(* (src/src/utils/storage.py), as a state machine.                        *)
(*                                                                         *)
(* Texts are sequences of one-character strings.  Timestamps              *)
(* (datetime.now().isoformat()) are the single value "ts".  A Python None *)
(* is None (for strings and timestamps), DayNone (for the day argument)   *)
(* or Absent (for dictionaries and missing keys of the graph state).      *)
(***************************************************************************)
EXTENDS Integers, Sequences, FiniteSets, TLC

\* ------------------------------------------------------------------ bounds
\* Number of run() invocations explored.
MaxRuns == 2
\* Number of decisions a human gives over all runs; after that many an
\* approval prompt stays unanswered.  (The graph library's own recursion
\* limit, 25 steps by default, lies beyond what is explored.)
MaxDecisions == 3
\* Store operations called directly, outside a run.
MaxOps == 2
\* Calls of _invoke_with_retry followed attempt by attempt.
MaxCalls == 2
\* File writes followed step by step.
MaxWrites == 2
\* Daily triggers fired by the scheduler thread.
MaxTriggers == 1
\* Lines typed at the "Your choice" prompt.
MaxTyped == 3

\* ------------------------------------------------------- program constants
TOTAL_DAYS == 90
MAX_POST_LENGTH == 3000
\* The literal of increment_day: "if current < 90".
LAST_DAY == 90
\* _truncate_content cuts at MAX_POST_LENGTH - 100.
TRUNCATE_MARGIN == 100
\* generate_post looks for '#' in content[-200:].
HASHTAG_WINDOW == 200

None == "None"
Absent == [none |-> TRUE]
\* run(day=None): the default of the day argument.
DayNone == -1

\* ------------------------------------------------------------ input sets
\* The curriculum file holds one entry per day 1..TOTAL_DAYS.
CurriculumDays == 1..TOTAL_DAYS

\* Days the persisted state may hold when the process starts: a fresh
\* journey, or a journey advanced by earlier sessions to its last days.
StartDays == {1, TOTAL_DAYS}

\* Explicit day arguments of run(day), DayNone being run().
DayArgs == {DayNone, 2, TOTAL_DAYS + 1}

\* Texts the generation capability may return for a post: one without and
\* one with a '#' near its end.
LLMTexts == {<<"a">>, <<"b", "#">>}
\* Text the generation capability returns for the hashtag prompt (without
\* surrounding whitespace, so that the strip() of _generate_hashtags keeps it).
HashtagTexts == {<<"#">>}
\* "\n\n---\n", the separator generate_post puts before the hashtags.
Separator == <<"\n", "\n", "-", "-", "-", "\n">>
\* What a human may type in edit mode: CANCEL, nothing, or a new text.
EditCancel == <<"CANCEL">>
EditInputs == {EditCancel, <<>>, <<" ">>, <<"e">>}
\* Rejection feedback a human may type (None: just Enter).
Feedbacks == {None, "more examples"}

\* A response of _invoke_with_retry: a text, or an exception.
LLMResponses == {[ok |-> TRUE, text |-> t] : t \in LLMTexts}
                  \cup {[ok |-> FALSE, text |-> <<>>]}
HashtagResponses == {[ok |-> TRUE, text |-> t] : t \in HashtagTexts}
                      \cup {[ok |-> FALSE, text |-> <<>>]}

\* --------------------------------------------------------------- storage
\* The two persisted files as _ensure_data_files / reset_journey write them.
DefaultHistory == [posted_items |-> <<>>, last_updated |-> None, total_posts |-> 0]
DefaultState == [current_day |-> 1, started_at |-> None, last_post_date |-> None,
                 pending_approval |-> Absent, status |-> "not_started"]

get_topic_for_day(day) ==
    IF day \in CurriculumDays THEN [day |-> day, topic |-> day] ELSE Absent

\* add_to_history appending the item without recounting total_posts.
add_to_history_stale_total(hf, day, topic, content, linkedin_post_id) ==
    LET posted_item == [day |-> day, topic |-> topic, content |-> content,
                        linkedin_post_id |-> linkedin_post_id,
                        posted_at |-> "ts", char_count |-> Len(content)]
    IN  [posted_items |-> Append(hf.posted_items, posted_item),
         last_updated |-> "ts", total_posts |-> hf.total_posts]

add_to_history(hf, day, topic, content, linkedin_post_id) ==
    LET posted_item == [day |-> day, topic |-> topic, content |-> content,
                        linkedin_post_id |-> linkedin_post_id,
                        posted_at |-> "ts", char_count |-> Len(content)]
        items == Append(hf.posted_items, posted_item)
    IN  [posted_items |-> items, last_updated |-> "ts", total_posts |-> Len(items)]

get_posted_days(hf) == {hf.posted_items[i].day : i \in DOMAIN hf.posted_items}

\* is_day_posted finding no day in the history.
is_day_posted_never(hf, day) == FALSE

is_day_posted(hf, day) == day \in get_posted_days(hf)

get_current_day(sf) == sf.current_day

increment_day(sf) ==
    IF get_current_day(sf) < LAST_DAY
    THEN [sf EXCEPT !.current_day = get_current_day(sf) + 1]
    ELSE sf

set_pending_approval(sf, content) ==
    [sf EXCEPT !.pending_approval = content, !.status = "pending_approval"]

clear_pending_approval(sf) ==
    [sf EXCEPT !.pending_approval = Absent, !.status = "active"]

mark_post_completed(sf, day) ==
    increment_day([sf EXCEPT !.last_post_date = "ts"])

start_journey(sf) ==
    [sf EXCEPT !.current_day = 1, !.started_at = "ts", !.status = "active"]

\* A data file that does not exist, and one that exists but holds no JSON
\* document.
Missing == [missing |-> TRUE]
Corrupt == [corrupt |-> TRUE]

\* _ensure_data_files writing the defaults whether the files exist or not.
ensure_data_files_overwrite(sf, hf) == [sf |-> DefaultState, hf |-> DefaultHistory]

\* _ensure_data_files: a file is written only when it does not exist.
ensure_data_files(sf, hf) ==
    [hf |-> IF hf = Missing THEN DefaultHistory ELSE hf,
     sf |-> IF sf = Missing THEN DefaultState ELSE sf]

\* get_progress (completion_percentage in tenths of a percent).
get_progress(sf, hf) ==
    [current_day |-> sf.current_day, total_posts |-> hf.total_posts,
     started_at |-> sf.started_at, last_post_date |-> sf.last_post_date,
     status |-> sf.status,
     completion_tenths |-> (hf.total_posts * 1000 + 45) \div 90]

\* reset_journey writing a history whose total_posts is not reset.
reset_journey_stale_total ==
    [sf |-> DefaultState, hf |-> [DefaultHistory EXCEPT !.total_posts = 1]]

\* reset_journey rewrites both files.
reset_journey == [sf |-> DefaultState, hf |-> DefaultHistory]

\* ----------------------------------------------------- content generator
\* str.rfind("\n\n") on a sequence of characters: the 0-based index of the
\* last paragraph break, -1 when there is none.
rfind_para(s) ==
    LET hits == {i \in 1..(Len(s) - 1) : s[i] = "\n" /\ s[i + 1] = "\n"}
    IN  IF hits = {} THEN -1
        ELSE (CHOOSE i \in hits : \A j \in hits : j <= i) - 1

\* The largest integer not above len(truncated) * 0.7, a product of doubles.
\* 0.7 is stored as 0.69999999999999995559..., and for the one length
\* truncated has when the line is reached, 2900, the product is the double
\* 2029.9999999999998, just below the exact 2030.
floor_times_0_7(n) == IF n = 2900 THEN 2029 ELSE (7 * n) \div 10

\* _truncate_content keeping the hard cut whatever the paragraph breaks.
truncate_content_hard_cut(content) ==
    IF Len(content) <= MAX_POST_LENGTH THEN content
    ELSE SubSeq(content, 1, MAX_POST_LENGTH - TRUNCATE_MARGIN)

\* An integer is above the double len(truncated) * 0.7 exactly when it is
\* above its floor.
truncate_content(content) ==
    IF Len(content) <= MAX_POST_LENGTH THEN content
    ELSE LET truncated == SubSeq(content, 1, MAX_POST_LENGTH - TRUNCATE_MARGIN)
             last_para == rfind_para(truncated)
         IN  IF last_para > floor_times_0_7(Len(truncated))
             THEN SubSeq(truncated, 1, last_para)
             ELSE truncated

\* str.strip(): the text without its leading and trailing whitespace.
Whitespace == {" ", "\n"}
strip(s) ==
    LET kept == {i \in DOMAIN s : s[i] \notin Whitespace}
    IN  IF kept = {} THEN <<>>
        ELSE SubSeq(s, CHOOSE i \in kept : \A j \in kept : i <= j,
                       CHOOSE i \in kept : \A j \in kept : j <= i)

\* '#' in content[-200:]
has_hashtag_tail(content) ==
    \E i \in DOMAIN content :
        /\ i > Len(content) - HASHTAG_WINDOW
        /\ content[i] = "#"

\* The tail shared by generate_post and regenerate_post once the topic is
\* known: the generation call, the length limit, the hashtag call.  r is the
\* outcome of _invoke_with_retry for the post, h the one for the hashtags.
\* Returns the draft, the number of _invoke_with_retry calls made, whether
\* an exception left the function, and what the post prompt carried (the day,
\* and the feedback appended to it: "if feedback: prompt += ...").
draft_from_llm(day, topic_info, feedback, r, h, regenerated) ==
    IF ~r.ok THEN [draft |-> Absent, calls |-> 1, raised |-> TRUE,
                   prompt |-> [day |-> day, feedback |-> feedback]]
    ELSE LET content == IF Len(r.text) > MAX_POST_LENGTH
                        THEN truncate_content(r.text) ELSE r.text
         IN  IF has_hashtag_tail(content)
             THEN [draft |-> [success |-> TRUE, day |-> day, topic |-> topic_info.topic,
                              content |-> content, char_count |-> Len(content),
                              regenerated |-> regenerated, duplicate |-> FALSE],
                   calls |-> 1, raised |-> FALSE,
                   prompt |-> [day |-> day, feedback |-> feedback]]
             ELSE IF ~h.ok THEN [draft |-> Absent, calls |-> 2, raised |-> TRUE,
                                 prompt |-> [day |-> day, feedback |-> feedback]]
             ELSE LET full == content \o Separator \o strip(h.text)
                  IN  [draft |-> [success |-> TRUE, day |-> day, topic |-> topic_info.topic,
                                  content |-> full, char_count |-> Len(full),
                                  regenerated |-> regenerated, duplicate |-> FALSE],
                       calls |-> 2, raised |-> FALSE,
                       prompt |-> [day |-> day, feedback |-> feedback]]

\* A failed draft: {"success": False, "error": ..., ["duplicate": True]}.
FailedDraft(day, error, duplicate) ==
    [success |-> FALSE, day |-> day, topic |-> 0, content |-> <<>>, char_count |-> 0,
     regenerated |-> FALSE, duplicate |-> duplicate, error |-> error]

\* generate_post without its "already posted" check.
generate_post_unchecked(hf, day, r, h) ==
    LET topic_info == get_topic_for_day(day)
    IN  IF topic_info = Absent
        THEN [draft |-> FailedDraft(day, "No topic found", FALSE),
              calls |-> 0, raised |-> FALSE, prompt |-> Absent]
        ELSE draft_from_llm(day, topic_info, None, r, h, FALSE)

generate_post(hf, day, r, h) ==
    LET topic_info == get_topic_for_day(day)
    IN  IF topic_info = Absent
        THEN [draft |-> FailedDraft(day, "No topic found", FALSE),
              calls |-> 0, raised |-> FALSE, prompt |-> Absent]
        ELSE IF is_day_posted(hf, day)
        THEN [draft |-> FailedDraft(day, "already posted", TRUE),
              calls |-> 0, raised |-> FALSE, prompt |-> Absent]
        ELSE draft_from_llm(day, topic_info, None, r, h, FALSE)

regenerate_post(hf, day, feedback, r, h) ==
    LET topic_info == get_topic_for_day(day)
    IN  IF topic_info = Absent
        THEN [draft |-> FailedDraft(day, "No topic found", FALSE),
              calls |-> 0, raised |-> FALSE, prompt |-> Absent]
        ELSE draft_from_llm(day, topic_info, feedback, r, h, TRUE)

\* The node calling generate_post whatever the feedback.
content_generator_call_no_regen(hf, state, r, h) ==
    generate_post(hf, state.current_day, r, h)

\* ContentGeneratorNode.__call__: regenerate when the state carries a
\* truthy regenerate_feedback, generate otherwise.
content_generator_call(hf, state, r, h) ==
    IF state.regenerate_feedback # None
    THEN regenerate_post(hf, state.current_day, state.regenerate_feedback, r, h)
    ELSE generate_post(hf, state.current_day, r, h)

\* ------------------------------------------------------ approval handler
\* The five results of get_user_decision.
Decisions == {"approve", "reject", "edit", "skip", "quit"}

\* get_edit_content: CANCEL keeps the original, so does an empty text.
\* get_edit_content returning what was typed, whatever it is.
get_edit_content_as_typed(original_content, typed) == typed

\* get_edit_content: typed is CANCEL or the lines entered before END; a text
\* that is empty once stripped gives the original back.
get_edit_content(original_content, typed) ==
    IF typed = EditCancel THEN original_content
    ELSE IF strip(typed) = <<>> THEN original_content
    ELSE typed

\* request_approval storing the snapshot only when the first answer is
\* "approve" (not after an edit).
request_approval_no_snapshot_after_edit(sf, content_data, inp) ==
    LET decision == inp.decision
        content == IF decision = "edit"
                   THEN get_edit_content(content_data.content, inp.typed)
                   ELSE content_data.content
        final == IF decision = "edit"
                 THEN (IF inp.post_edited THEN "approve" ELSE "reject")
                 ELSE decision
    IN  [result |-> [decision |-> final, content |-> content,
                     day |-> content_data.day, topic |-> content_data.topic,
                     feedback |-> IF decision = "reject" THEN inp.feedback ELSE None,
                     edited |-> (decision = "edit"), auto_approved |-> FALSE],
         sf |-> IF decision = "approve"
                THEN set_pending_approval(sf,
                        [content |-> content, day |-> content_data.day,
                         topic |-> content_data.topic, approved_at |-> "ts"])
                ELSE sf]

\* request_approval.  inp is what the human enters: the decision, the text
\* typed in edit mode, the answer to "Post this edited content?" and the
\* rejection feedback.  Returns the approval result and the state file.
request_approval(sf, content_data, inp) ==
    LET decision == inp.decision
        content == IF decision = "edit"
                   THEN get_edit_content(content_data.content, inp.typed)
                   ELSE content_data.content
        final == IF decision = "edit"
                 THEN (IF inp.post_edited THEN "approve" ELSE "reject")
                 ELSE decision
        result == [decision |-> final, content |-> content,
                   day |-> content_data.day, topic |-> content_data.topic,
                   feedback |-> IF decision = "reject" THEN inp.feedback ELSE None,
                   edited |-> (decision = "edit"), auto_approved |-> FALSE]
    IN  [result |-> result,
         sf |-> IF decision \in {"approve", "edit"}
                THEN set_pending_approval(sf,
                        [content |-> content, day |-> content_data.day,
                         topic |-> content_data.topic, approved_at |-> "ts"])
                ELSE sf]

\* auto_approve resolving to Reject.
auto_approve_rejecting(content_data) ==
    [decision |-> "reject", content |-> content_data.content,
     day |-> content_data.day, topic |-> content_data.topic,
     feedback |-> None, edited |-> FALSE, auto_approved |-> TRUE]

auto_approve(content_data) ==
    [decision |-> "approve", content |-> content_data.content,
     day |-> content_data.day, topic |-> content_data.topic,
     feedback |-> None, edited |-> FALSE, auto_approved |-> TRUE]

\* The approval result for a failed draft: {"decision": "error", ...}.
ErrorDecision ==
    [decision |-> "error", content |-> <<>>, day |-> 0, topic |-> 0,
     feedback |-> None, edited |-> FALSE, auto_approved |-> FALSE]

\* ApprovalHandlerNode.__call__ storing the pending snapshot in auto_approve
\* mode as request_approval does after an Approve.
approval_handler_call_auto_snapshot(sf, state, inp) ==
    LET content_data == state.generated_content
    IN  IF content_data = Absent \/ ~content_data.success
        THEN [state |-> [state EXCEPT !.approval_result = ErrorDecision], sf |-> sf]
        ELSE IF state.auto_approve
        THEN [state |-> [state EXCEPT !.approval_result = auto_approve(content_data)],
              sf |-> set_pending_approval(sf,
                        [content |-> content_data.content, day |-> content_data.day,
                         topic |-> content_data.topic, approved_at |-> "ts"])]
        ELSE LET out == request_approval(sf, content_data, inp)
             IN  [state |-> [state EXCEPT !.approval_result = out.result],
                  sf |-> out.sf]

\* ApprovalHandlerNode.__call__
approval_handler_call(sf, state, inp) ==
    LET content_data == state.generated_content
    IN  IF content_data = Absent \/ ~content_data.success
        THEN [state |-> [state EXCEPT !.approval_result = ErrorDecision], sf |-> sf]
        ELSE IF state.auto_approve
        THEN [state |-> [state EXCEPT !.approval_result = auto_approve(content_data)],
              sf |-> sf]
        ELSE LET out == request_approval(sf, content_data, inp)
             IN  [state |-> [state EXCEPT !.approval_result = out.result],
                  sf |-> out.sf]

\* ------------------------------------------------------- linkedin poster
\* post_content recording the post whatever create_text_post returned.
post_content_always_records(sf, hf, content, day, topic, api_ok, post_id) ==
    [result |-> [success |-> api_ok, action |-> "posted", day |-> day],
     hf |-> add_to_history(hf, day, topic, content, post_id),
     sf |-> clear_pending_approval(mark_post_completed(sf, day))]

\* post_content.  api_ok is the "success" of what create_text_post returned,
\* post_id its "post_id".  Returns the posting result and both files.
post_content(sf, hf, content, day, topic, api_ok, post_id) ==
    IF api_ok
    THEN [result |-> [success |-> TRUE, action |-> "posted", day |-> day],
          hf |-> add_to_history(hf, day, topic, content, post_id),
          sf |-> clear_pending_approval(mark_post_completed(sf, day))]
    ELSE [result |-> [success |-> FALSE, action |-> "failed", day |-> day],
          hf |-> hf, sf |-> sf]

handle_skip(sf, day, topic) ==
    [result |-> [success |-> TRUE, action |-> "skipped", day |-> day],
     sf |-> increment_day(clear_pending_approval(sf))]

\* LinkedInPosterNode.__call__ taking the day to publish or skip from the
\* store instead of the decision.
poster_call_store_day(sf, hf, state, api_ok, post_id) ==
    LET approval_result == state.approval_result
        decision == IF approval_result = Absent THEN None
                    ELSE approval_result.decision
    IN  IF decision = "approve"
        THEN LET out == post_content(sf, hf, approval_result.content,
                                     get_current_day(sf), approval_result.topic,
                                     api_ok, post_id)
             IN  [state |-> [state EXCEPT !.posting_result = out.result,
                                          !.workflow_complete = out.result.success],
                  sf |-> out.sf, hf |-> out.hf, called |-> TRUE]
        ELSE IF decision = "skip"
        THEN LET out == handle_skip(sf, get_current_day(sf), approval_result.topic)
             IN  [state |-> [state EXCEPT !.posting_result = out.result,
                                          !.workflow_complete = TRUE],
                  sf |-> out.sf, hf |-> hf, called |-> FALSE]
        ELSE IF decision = "reject"
        THEN [state |-> [state EXCEPT !.needs_regeneration = TRUE,
                                      !.regenerate_feedback = approval_result.feedback,
                                      !.workflow_complete = FALSE],
              sf |-> sf, hf |-> hf, called |-> FALSE]
        ELSE IF decision = "quit"
        THEN [state |-> [state EXCEPT
                            !.posting_result = [success |-> FALSE, action |-> "quit", day |-> 0],
                            !.workflow_complete = TRUE,
                            !.quit_requested = TRUE],
              sf |-> sf, hf |-> hf, called |-> FALSE]
        ELSE [state |-> [state EXCEPT
                            !.posting_result = [success |-> FALSE, action |-> "unknown", day |-> 0],
                            !.workflow_complete = TRUE],
              sf |-> sf, hf |-> hf, called |-> FALSE]

\* LinkedInPosterNode.__call__: dispatch on the decision.  called tells
\* whether create_text_post was invoked.
poster_call(sf, hf, state, api_ok, post_id) ==
    LET approval_result == state.approval_result
        decision == IF approval_result = Absent THEN None
                    ELSE approval_result.decision
    IN  IF decision = "approve"
        THEN LET out == post_content(sf, hf, approval_result.content,
                                     approval_result.day, approval_result.topic,
                                     api_ok, post_id)
             IN  [state |-> [state EXCEPT !.posting_result = out.result,
                                          !.workflow_complete = out.result.success],
                  sf |-> out.sf, hf |-> out.hf, called |-> TRUE]
        ELSE IF decision = "skip"
        THEN LET out == handle_skip(sf, approval_result.day, approval_result.topic)
             IN  [state |-> [state EXCEPT !.posting_result = out.result,
                                          !.workflow_complete = TRUE],
                  sf |-> out.sf, hf |-> hf, called |-> FALSE]
        ELSE IF decision = "reject"
        THEN [state |-> [state EXCEPT !.needs_regeneration = TRUE,
                                      !.regenerate_feedback = approval_result.feedback,
                                      !.workflow_complete = FALSE],
              sf |-> sf, hf |-> hf, called |-> FALSE]
        ELSE IF decision = "quit"
        THEN [state |-> [state EXCEPT
                            !.posting_result = [success |-> FALSE, action |-> "quit", day |-> 0],
                            !.workflow_complete = TRUE,
                            !.quit_requested = TRUE],
              sf |-> sf, hf |-> hf, called |-> FALSE]
        ELSE [state |-> [state EXCEPT
                            !.posting_result = [success |-> FALSE, action |-> "unknown", day |-> 0],
                            !.workflow_complete = TRUE],
              sf |-> sf, hf |-> hf, called |-> FALSE]

\* ------------------------------------------------------------ the graph
\* The edge after generation leading to approval whatever the draft.
route_after_generation_always(state) == "get_approval"

route_after_generation(state) ==
    IF state.generated_content # Absent /\ state.generated_content.success
    THEN "get_approval" ELSE "END"

\* The edge after posting never going back to generation.
route_after_posting_end(state) == "END"

route_after_posting(state) ==
    IF state.needs_regeneration THEN "generate_content" ELSE "END"

\* run(): the initial graph state.  Keys not given are absent
\* (state.get(...) is None, hence falsy).
initial_state(day, auto) ==
    [current_day |-> day, auto_approve |-> auto, workflow_complete |-> FALSE,
     regenerate_feedback |-> None, generated_content |-> Absent,
     needs_approval |-> FALSE, approval_result |-> Absent,
     posting_result |-> Absent, needs_regeneration |-> FALSE,
     quit_requested |-> FALSE]

\* ----------------------------------------------------------------- state
\* ------------------------------------------------------ _invoke_with_retry
\* max_retries=3, the default every caller uses.
max_retries == 3
\* The factor of wait_time.
BACKOFF_SECONDS == 30

\* Exception messages as sequences of words; "x in error_str" is in_str.
in_str(word, error_str) == \E i \in DOMAIN error_str : error_str[i] = word

ErrorStrings == {<<"429", "quota">>, <<"RESOURCE_EXHAUSTED">>, <<"timeout">>}
MaxRetriesExceeded == <<"Max retries exceeded due to rate limiting">>

\* What one llm.invoke(messages) does: returns a text or raises.
InvokeOutcomes == {[ok |-> TRUE, text |-> t, error |-> <<>>] : t \in LLMTexts}
                    \cup {[ok |-> FALSE, text |-> <<>>, error |-> e] : e \in ErrorStrings}

is_rate_limited(error_str) ==
    in_str("429", error_str) \/ in_str("RESOURCE_EXHAUSTED", error_str)

\* wait_time with every wait the same.
wait_time_flat(attempt) == BACKOFF_SECONDS

wait_time(attempt) == BACKOFF_SECONDS * (attempt + 1)

\* No call made yet.  where: "idle", "try" (top of the loop body), "sleep"
\* (inside the rate-limit branch), "after_loop", "returned", "raised".
\* log is the sequence of outcomes of llm.invoke in this call, waits the
\* arguments of time.sleep.
RetryIdle ==
    [where |-> "idle", attempt |-> 0, log |-> <<>>, waits |-> <<>>,
     result |-> <<>>, error |-> <<>>, calls |-> 0]

\* -------------------------------------------------- _read_json / _write_json
\* The text json.dump writes, as the sequence of pieces it hands to f.write:
\* the opening brace, the members, the closing brace.
json_dump(data) ==
    <<[piece |-> "{", data |-> Absent], [piece |-> "members", data |-> data],
      [piece |-> "}", data |-> Absent]>>

\* json.load on the text of a file: the document, or JSONDecodeError for an
\* empty or cut-off text.
json_load(text) ==
    IF /\ Len(text) = 3
       /\ text[1].piece = "{" /\ text[2].piece = "members" /\ text[3].piece = "}"
    THEN [ok |-> TRUE, data |-> text[2].data]
    ELSE [ok |-> FALSE, data |-> Absent]

\* update_state: state.update(kwargs) on the dict read from the state file.
update_state(sf, kwargs) ==
    [k \in DOMAIN sf |-> IF k \in DOMAIN kwargs THEN kwargs[k] ELSE sf[k]]

\* No write in progress, nothing read yet.  where: "idle", "writing" (between
\* open(file_path, 'w') and the end of the with block), "crashed" (the process
\* died inside the with block).  text is what the file being written holds,
\* pending what json.dump has not yet written through.
IoIdle ==
    [where |-> "idle", file |-> None, text |-> <<>>, pending |-> <<>>,
     observed |-> Absent, writes |-> 0]

\* --------------------------------------------------- get_user_decision
\* Strings typed at the prompt are sequences of characters.
Letters == <<"a", "c", "d", "e", "i", "j", "k", "o", "p", "q", "r", "s", "t", "u", "v">>
Capitals == <<"A", "C", "D", "E", "I", "J", "K", "O", "P", "Q", "R", "S", "T", "U", "V">>

\* str.lower() and str.upper() on the characters used.
lower_char(c) ==
    IF \E i \in DOMAIN Capitals : Capitals[i] = c
    THEN Letters[CHOOSE i \in DOMAIN Capitals : Capitals[i] = c] ELSE c
upper_char(c) ==
    IF \E i \in DOMAIN Letters : Letters[i] = c
    THEN Capitals[CHOOSE i \in DOMAIN Letters : Letters[i] = c] ELSE c
lower(s) == [i \in DOMAIN s |-> lower_char(s[i])]
upper(s) == [i \in DOMAIN s |-> upper_char(s[i])]
capitalize(s) == [i \in DOMAIN s |-> IF i = 1 THEN upper_char(s[i]) ELSE s[i]]

\* The full words of choice_map, by decision.
word(decision) ==
    CASE decision = "approve" -> <<"a", "p", "p", "r", "o", "v", "e">>
      [] decision = "reject" -> <<"r", "e", "j", "e", "c", "t">>
      [] decision = "edit" -> <<"e", "d", "i", "t">>
      [] decision = "skip" -> <<"s", "k", "i", "p">>
      [] decision = "quit" -> <<"q", "u", "i", "t">>

\* choices=[...] of the Prompt.ask call, and default="a".
PromptChoices ==
    {SubSeq(word(d), 1, 1) : d \in Decisions} \cup {word(d) : d \in Decisions}
PromptDefault == <<"a">>

\* The answer of Prompt.ask when the prompt cannot accept the line and asks
\* again.
InvalidChoice == <<"InvalidResponse">>

\* Prompt.ask with choices and a default, for one typed line: the default
\* for an empty line, the stripped line when it is one of the choices (the
\* comparison keeps the case), otherwise the prompt is shown again.
prompt_ask(typed) ==
    IF typed = <<>> THEN PromptDefault
    ELSE IF strip(typed) \in PromptChoices THEN strip(typed)
    ELSE InvalidChoice

\* choice_map.get(choice, "approve")
choice_map_get(choice) ==
    IF \E d \in Decisions : choice = word(d) \/ choice = SubSeq(word(d), 1, 1)
    THEN CHOOSE d \in Decisions : choice = word(d) \/ choice = SubSeq(word(d), 1, 1)
    ELSE "approve"

\* get_user_decision not called.  stage: "idle", "asking" (inside
\* Prompt.ask), "returned"; typed is the last line entered, lines their
\* number.
PromptIdle ==
    [stage |-> "idle", typed |-> <<>>, decision |-> None, lines |-> 0]

\* No text generated.  stage: "input" (the generation capability returned
\* input), "truncated" (_truncate_content returned output), "drafted"
\* (generate_post / regenerate_post returned a draft with content output
\* after calls calls of _invoke_with_retry), "raised".
TextIdle ==
    [stage |-> "idle", input |-> <<>>, output |-> <<>>, calls |-> 0]

\* Scheduled mode not entered: the scheduler thread does not exist.  pc of
\* the thread: "not_started", "waiting" (in the loop of Scheduler._run), a
\* node of its run, or "raised" (an exception ended the thread).
SchedulerIdle ==
    [pc |-> "not_started", state |-> Absent, triggers |-> 0, stop_event |-> FALSE]

\* post_content is not running.  where: "idle", the write post_content is
\* about to make ("add_to_history", "last_post_date", "increment_day",
\* "clear_pending"), or "crashed" (the process died before that write).
\* runs counts the run() calls, refused tells that the last one ended with
\* "already posted".
CommitIdle ==
    [where |-> "idle", day |-> 0, content |-> <<>>, runs |-> 0, crashes |-> 0,
     refused |-> FALSE]

\* Scheduler.__init__: no thread, the stop event not set.  thread is
\* self._thread (0 for None, else the number of the thread), loops maps each
\* thread started to where its _run is: "check" (at the while condition),
\* "sleep" (run_pending done, in time.sleep(60)) or "exited".  main is where
\* the caller is: "idle" or "join" (inside stop(), in _thread.join).
\* stopped tells how the last stop() found its thread when it returned,
\* ticks counts the run_pending calls of all threads.
SchedulerObject ==
    [stop_event |-> FALSE, thread |-> 0, loops |-> <<>>, main |-> "idle",
     stops |-> 0, stopped |-> None, ticks |-> 0]

VARIABLES
    state_file,     \* agent_state.json
    history_file,   \* posted_history.json
    pc,             \* the graph node about to run: "idle" before the first
                    \* run, "END" after a run returned, "raised" after an
                    \* exception left run()
    state,          \* the AgentState of the run
    pub_calls,      \* number of create_text_post calls made in the run
    last_pub,       \* the last create_text_post call of the run: text, outcome
    llm_calls,      \* number of _invoke_with_retry calls made in the run
    llm_prompt,     \* what the post prompt of the last generation step carried
    runs,           \* number of run() invocations so far
    decisions,      \* number of human decisions given so far
    run_log,        \* the run so far: number of generate_content steps and
                    \* the decisions the approval gate returned, in order
    ops,            \* number of store operations called outside a run
    retry,          \* one call of _invoke_with_retry, attempt by attempt
    io,             \* the file write in progress and what a reader last saw
    text,           \* a generated text and what the generator made of it
    prompt,         \* get_user_decision: the prompt and what was typed
    sched,          \* scheduled mode: the scheduler thread and its run
    commit,         \* post_content after a successful publish, write by write
    scheduler       \* one Scheduler object and the loop threads it started

\* The variables the workflow of one process never touches.
side == <<ops, retry, io, sched, text, prompt, commit, scheduler>>

vars == <<state_file, history_file, pc, state, pub_calls, last_pub, llm_calls,
          llm_prompt, runs, decisions, run_log, side>>

\* Nothing done in the run yet.
RunLogEmpty == [gens |-> 0, decisions |-> <<>>]

\* What a human may enter at the approval prompt.
ApprovalInputs ==
    {[decision |-> d, typed |-> <<>>, post_edited |-> TRUE, feedback |-> None] :
        d \in {"approve", "skip", "quit"}}
    \cup {[decision |-> "reject", typed |-> <<>>, post_edited |-> TRUE, feedback |-> f] :
            f \in Feedbacks}
    \cup {[decision |-> "edit", typed |-> t, post_edited |-> b, feedback |-> None] :
            t \in EditInputs, b \in BOOLEAN}

\* The files an earlier session left: the defaults of _ensure_data_files, or
\* a journey that skipped ahead to day d (handle_skip: pending cleared,
\* status active, nothing in the history).
InitFiles ==
    /\ \E d \in StartDays :
          state_file = [DefaultState EXCEPT !.current_day = d,
                           !.status = IF d = 1 THEN "not_started" ELSE "active"]
    /\ history_file = DefaultHistory

\* No run() called yet.
InitRun ==
    /\ pc = "idle"
    /\ state = initial_state(1, FALSE)
    /\ pub_calls = 0
    /\ last_pub = Absent
    /\ llm_calls = 0
    /\ llm_prompt = Absent
    /\ runs = 0
    /\ decisions = 0
    /\ run_log = RunLogEmpty

\* Nothing called outside a run, no scheduler thread.
InitOther ==
    /\ ops = 0
    /\ retry = RetryIdle
    /\ io = IoIdle
    /\ sched = SchedulerIdle
    /\ prompt = PromptIdle
    /\ commit = CommitIdle
    /\ scheduler = SchedulerObject

Init ==
    /\ InitFiles
    /\ InitRun
    /\ InitOther
    /\ text = TextIdle

\* LinkedInPostingAgent.run(day, auto_approve) up to app.invoke.
Run(day, auto) ==
    /\ pc \in {"idle", "END", "raised"}
    /\ runs < MaxRuns
    /\ state' = initial_state(IF day = DayNone THEN get_current_day(state_file) ELSE day,
                              auto)
    /\ pc' = "generate_content"
    /\ runs' = runs + 1
    /\ pub_calls' = 0
    /\ last_pub' = Absent
    /\ llm_calls' = 0
    /\ llm_prompt' = Absent
    /\ run_log' = RunLogEmpty
    /\ UNCHANGED <<state_file, history_file, decisions, side>>

\* The node generate_content and the conditional edge after it.
GenerateContent ==
    /\ pc = "generate_content"
    /\ \E r \in LLMResponses, h \in HashtagResponses :
          LET out == content_generator_call(history_file, state, r, h)
              next == [state EXCEPT !.generated_content = out.draft,
                                    !.needs_approval = out.draft.success]
          IN  /\ llm_calls' = llm_calls + out.calls
              /\ llm_prompt' = out.prompt
              /\ IF out.raised
                 THEN pc' = "raised" /\ UNCHANGED state
                 ELSE state' = next /\ pc' = route_after_generation(next)
    /\ run_log' = [run_log EXCEPT !.gens = run_log.gens + 1]
    /\ UNCHANGED <<state_file, history_file, pub_calls, last_pub, runs, decisions, side>>

\* The node get_approval and the edge to post_to_linkedin.
GetApproval ==
    /\ pc = "get_approval"
    /\ state.auto_approve \/ decisions < MaxDecisions
    /\ \E inp \in ApprovalInputs :
          LET out == approval_handler_call(state_file, state, inp)
          IN  /\ state' = out.state
              /\ state_file' = out.sf
              /\ run_log' = [run_log EXCEPT
                               !.decisions = Append(run_log.decisions,
                                                    out.state.approval_result.decision)]
    /\ decisions' = IF state.auto_approve THEN decisions ELSE decisions + 1
    /\ pc' = "post_to_linkedin"
    /\ UNCHANGED <<history_file, pub_calls, last_pub, llm_calls, llm_prompt, runs, side>>

\* The node post_to_linkedin and the conditional edge after it.
PostToLinkedin ==
    /\ pc = "post_to_linkedin"
    /\ \E api_ok \in BOOLEAN :
          LET out == poster_call(state_file, history_file, state, api_ok, "id")
          IN  /\ state' = out.state
              /\ state_file' = out.sf
              /\ history_file' = out.hf
              /\ pub_calls' = IF out.called THEN pub_calls + 1 ELSE pub_calls
              /\ last_pub' = IF out.called
                             THEN [text |-> state.approval_result.content,
                                   success |-> api_ok]
                             ELSE last_pub
              /\ pc' = route_after_posting(out.state)
    /\ UNCHANGED <<llm_calls, llm_prompt, runs, decisions, run_log, side>>

Next ==
    \/ \E day \in DayArgs, auto \in BOOLEAN : Run(day, auto)
    \/ GenerateContent
    \/ GetApproval
    \/ PostToLinkedin

Spec == Init /\ [][Next]_vars

\* ------------------------------------------- store operations between runs
\* The StorageManager methods a caller of the library may invoke on the
\* persisted files while no run() is in progress.
workflow_vars == <<pc, state, pub_calls, last_pub, llm_calls, llm_prompt,
                   runs, decisions, run_log>>

\* The snapshots a caller may hand to set_pending_approval.
PendingContents ==
    {[content |-> <<"a">>, day |-> 1, topic |-> 1, approved_at |-> "ts"]}

\* The day arguments tried for mark_post_completed.
CompletedDays == {1, TOTAL_DAYS}

BetweenRuns == pc \in {"idle", "END", "raised"} /\ ops < MaxOps

SetPendingApproval(content) ==
    /\ BetweenRuns
    /\ state_file' = set_pending_approval(state_file, content)
    /\ ops' = ops + 1
    /\ UNCHANGED <<history_file, workflow_vars, retry, io, sched, text, prompt, commit, scheduler>>

ClearPendingApproval ==
    /\ BetweenRuns
    /\ state_file' = clear_pending_approval(state_file)
    /\ ops' = ops + 1
    /\ UNCHANGED <<history_file, workflow_vars, retry, io, sched, text, prompt, commit, scheduler>>

StartJourney ==
    /\ BetweenRuns
    /\ state_file' = start_journey(state_file)
    /\ ops' = ops + 1
    /\ UNCHANGED <<history_file, workflow_vars, retry, io, sched, text, prompt, commit, scheduler>>

MarkPostCompleted(day) ==
    /\ BetweenRuns
    /\ state_file' = mark_post_completed(state_file, day)
    /\ ops' = ops + 1
    /\ UNCHANGED <<history_file, workflow_vars, retry, io, sched, text, prompt, commit, scheduler>>

IncrementDay ==
    /\ BetweenRuns
    /\ state_file' = increment_day(state_file)
    /\ ops' = ops + 1
    /\ UNCHANGED <<history_file, workflow_vars, retry, io, sched, text, prompt, commit, scheduler>>

ResetJourney ==
    /\ BetweenRuns
    /\ state_file' = reset_journey.sf
    /\ history_file' = reset_journey.hf
    /\ ops' = ops + 1
    /\ UNCHANGED <<workflow_vars, retry, io, sched, text, prompt, commit, scheduler>>

NextOps ==
    \/ Next
    \/ \E content \in PendingContents : SetPendingApproval(content)
    \/ ClearPendingApproval
    \/ StartJourney
    \/ \E day \in CompletedDays : MarkPostCompleted(day)
    \/ IncrementDay
    \/ ResetJourney

SpecOps == Init /\ [][NextOps]_vars

\* ------------------------------------- _invoke_with_retry, attempt by attempt
non_retry_vars == <<state_file, history_file, workflow_vars, ops, io, sched, text, prompt, commit, scheduler>>

\* A caller (generate_post, regenerate_post, _generate_hashtags) enters
\* _invoke_with_retry.
InvokeWithRetry ==
    /\ retry.where \in {"idle", "returned", "raised"}
    /\ retry.calls < MaxCalls
    /\ retry' = [RetryIdle EXCEPT !.where = "try", !.calls = retry.calls + 1]
    /\ UNCHANGED non_retry_vars

\* One pass of the try statement: llm.invoke returns or raises.
Attempt(outcome) ==
    /\ retry.where = "try"
    /\ retry' = [retry EXCEPT
                    !.log = Append(retry.log, outcome),
                    !.where = IF outcome.ok THEN "returned"
                              ELSE IF is_rate_limited(outcome.error) THEN "sleep"
                              ELSE "raised",
                    !.result = IF outcome.ok THEN outcome.text ELSE retry.result,
                    !.error = IF ~outcome.ok /\ ~is_rate_limited(outcome.error)
                              THEN outcome.error ELSE retry.error]
    /\ UNCHANGED non_retry_vars

\* time.sleep(wait_time) and the step of the for loop.
Sleep ==
    /\ retry.where = "sleep"
    /\ retry' = [retry EXCEPT
                    !.waits = Append(retry.waits, wait_time(retry.attempt)),
                    !.attempt = retry.attempt + 1,
                    !.where = IF retry.attempt + 1 < max_retries
                              THEN "try" ELSE "after_loop"]
    /\ UNCHANGED non_retry_vars

\* raise Exception("Max retries exceeded due to rate limiting")
RaiseMaxRetries ==
    /\ retry.where = "after_loop"
    /\ retry' = [retry EXCEPT !.where = "raised", !.error = MaxRetriesExceeded]
    /\ UNCHANGED non_retry_vars

NextRetry ==
    \/ InvokeWithRetry
    \/ \E outcome \in InvokeOutcomes : Attempt(outcome)
    \/ Sleep
    \/ RaiseMaxRetries

SpecRetry == Init /\ [][NextRetry]_vars

\* ---------------------------------------------- file writes, step by step
non_io_vars == <<workflow_vars, ops, retry, sched, text, prompt, commit, scheduler>>

Files == {"state", "history"}

\* What a reader finds in a file right now.
disk(file) ==
    IF io.where # "idle" /\ io.file = file THEN io.text
    ELSE IF file = "state" THEN json_dump(state_file)
    ELSE json_dump(history_file)

\* The StorageManager methods that call update_state, and the keyword
\* arguments each passes (mark_post_completed: its first call).
UpdateMethods ==
    {"increment_day", "set_pending_approval", "clear_pending_approval",
     "start_journey", "mark_post_completed"}

update_kwargs(method, sf) ==
    CASE method = "increment_day" -> [current_day |-> get_current_day(sf) + 1]
      [] method = "set_pending_approval" ->
            [pending_approval |-> CHOOSE c \in PendingContents : TRUE,
             status |-> "pending_approval"]
      [] method = "clear_pending_approval" ->
            [pending_approval |-> Absent, status |-> "active"]
      [] method = "start_journey" ->
            [current_day |-> 1, started_at |-> "ts", status |-> "active"]
      [] method = "mark_post_completed" -> [last_post_date |-> "ts"]

\* update_state up to open(STATE_FILE, 'w'), which empties the file.
UpdateStateOpen(method) ==
    /\ io.where = "idle"
    /\ io.writes < MaxWrites
    /\ LET doc == json_load(disk("state"))
       IN  /\ doc.ok
           /\ method = "increment_day" => get_current_day(doc.data) < LAST_DAY
           /\ io' = [io EXCEPT !.where = "writing", !.file = "state", !.text = <<>>,
                               !.pending = json_dump(update_state(doc.data,
                                               update_kwargs(method, doc.data))),
                               !.writes = io.writes + 1]
    /\ UNCHANGED <<state_file, history_file, non_io_vars>>

\* add_to_history up to open(HISTORY_FILE, 'w').
AddToHistoryOpen(day) ==
    /\ io.where = "idle"
    /\ io.writes < MaxWrites
    /\ LET doc == json_load(disk("history"))
       IN  /\ doc.ok
           /\ io' = [io EXCEPT !.where = "writing", !.file = "history", !.text = <<>>,
                               !.pending = json_dump(add_to_history(doc.data, day, day,
                                                                    <<"a">>, "id")),
                               !.writes = io.writes + 1]
    /\ UNCHANGED <<state_file, history_file, non_io_vars>>

\* One piece of the text reaches the file.
WritePiece ==
    /\ io.where = "writing"
    /\ io.pending # <<>>
    /\ io' = [io EXCEPT !.text = Append(io.text, Head(io.pending)),
                        !.pending = Tail(io.pending)]
    /\ UNCHANGED <<state_file, history_file, non_io_vars>>

\* The end of the with block: the rest is written and the file closed.
CloseFile ==
    /\ io.where = "writing"
    /\ LET doc == json_load(io.text \o io.pending)
       IN  /\ state_file' = IF io.file = "state" THEN doc.data ELSE state_file
           /\ history_file' = IF io.file = "history" THEN doc.data ELSE history_file
    /\ io' = [io EXCEPT !.where = "idle", !.file = None, !.text = <<>>,
                        !.pending = <<>>]
    /\ UNCHANGED non_io_vars

\* The process dies inside the with block; the file keeps what it holds.
Crash ==
    /\ io.where = "writing"
    /\ io' = [io EXCEPT !.where = "crashed", !.pending = <<>>]
    /\ UNCHANGED <<state_file, history_file, non_io_vars>>

\* _read_json by another thread or process, or by the process restarted
\* after the crash.
ReadJson(file) ==
    /\ io' = [io EXCEPT !.observed = [file |-> file, doc |-> json_load(disk(file))]]
    /\ io'.observed # io.observed
    /\ UNCHANGED <<state_file, history_file, non_io_vars>>

NextFiles ==
    \/ \E method \in UpdateMethods : UpdateStateOpen(method)
    \/ \E day \in CompletedDays : AddToHistoryOpen(day)
    \/ WritePiece
    \/ CloseFile
    \/ Crash
    \/ \E file \in Files : ReadJson(file)

SpecFiles == Init /\ [][NextFiles]_vars

\* ------------------------------------- long texts through the generator
non_text_vars ==
    <<state_file, history_file, workflow_vars, ops, retry, io, sched, prompt, commit,
      scheduler>>

\* A text of n characters: a paragraph break ("\n\n") starting at each
\* position of breaks, a '#' at each position of hashes, letters elsewhere.
make_text(n, breaks, hashes) ==
    [i \in 1..n |-> IF i \in breaks \/ (i - 1) \in breaks THEN "\n"
                    ELSE IF i \in hashes THEN "#"
                    ELSE "x"]

\* Lengths around MAX_POST_LENGTH and below the hashtag window.
TextLengths == {150, MAX_POST_LENGTH, MAX_POST_LENGTH + 1, MAX_POST_LENGTH + 150}

\* Paragraph breaks (1-based position of the first newline) around 70% of
\* the cut point (2030, 2031, 2032), around the cut point (2899, 2900) and
\* beyond it.
BreakSets ==
    {{}, {1000}, {2030}, {2031}, {2032}, {2031, 2500}, {2899}, {2900},
     {1000, 2900}, {2950}}

\* Positions of '#', counted from the end of the text: none, the last
\* character, the first and the one before the first of the last 200.
HashOffsets == {-1, 0, 199, 200}

InputTexts ==
    {make_text(n, b, IF o < 0 THEN {} ELSE {n - o}) :
        n \in TextLengths, b \in BreakSets, o \in HashOffsets}

\* What the generation capability may answer to the hashtag prompt.
HashtagReplies ==
    {[ok |-> TRUE, text |-> t] :
        t \in {<<"#">>, <<" ", "#", "t", "\n">>, <<"t">>, <<" ">>,
               make_text(TRUNCATE_MARGIN + 1, {}, {1})}}
    \cup {[ok |-> FALSE, text |-> <<>>]}

InitText ==
    /\ InitFiles
    /\ InitRun
    /\ InitOther
    /\ \E t \in InputTexts : text = [TextIdle EXCEPT !.stage = "input", !.input = t]

\* _truncate_content(input)
TruncateContent ==
    /\ text.stage = "input"
    /\ text' = [text EXCEPT !.stage = "truncated",
                            !.output = truncate_content(text.input)]
    /\ UNCHANGED non_text_vars

\* generate_post (regenerated false) or regenerate_post (true) for day 1
\* with the generation capability answering input, then h.
GenerateDraft(h, regenerated) ==
    /\ text.stage = "input"
    /\ LET out == draft_from_llm(1, get_topic_for_day(1),
                                 IF regenerated THEN "more examples" ELSE None,
                                 [ok |-> TRUE, text |-> text.input], h, regenerated)
       IN  text' = IF out.raised
                   THEN [text EXCEPT !.stage = "raised", !.calls = out.calls]
                   ELSE [text EXCEPT !.stage = "drafted", !.calls = out.calls,
                                     !.output = out.draft.content]
    /\ UNCHANGED non_text_vars

NextText ==
    \/ TruncateContent
    \/ \E h \in HashtagReplies, regenerated \in BOOLEAN : GenerateDraft(h, regenerated)

SpecText == InitText /\ [][NextText]_vars

\* ------------------------------------------- StorageManager construction
\* What the data directory may hold when a StorageManager is constructed:
\* each file missing, unreadable, or left by an earlier session.
EarlierStates ==
    {[current_day |-> d, started_at |-> None, last_post_date |-> l,
      pending_approval |-> p, status |-> IF p = Absent THEN "active" ELSE "pending_approval"] :
        d \in {2, TOTAL_DAYS}, l \in {None, "ts"}, p \in {Absent} \cup PendingContents}

EarlierHistories ==
    {DefaultHistory,
     add_to_history(DefaultHistory, 1, 1, <<"a">>, "id"),
     add_to_history(add_to_history(DefaultHistory, 1, 1, <<"a">>, "id"),
                    2, 2, <<"b", "#">>, None)}

InitEnsure ==
    /\ state_file \in {Missing, Corrupt} \cup EarlierStates
    /\ history_file \in {Missing, Corrupt} \cup EarlierHistories
    /\ InitRun
    /\ InitOther
    /\ text = TextIdle

\* StorageManager(): __init__ calls _ensure_data_files.
EnsureDataFiles ==
    /\ ops < MaxOps
    /\ LET out == ensure_data_files(state_file, history_file)
       IN  state_file' = out.sf /\ history_file' = out.hf
    /\ ops' = ops + 1
    /\ UNCHANGED <<workflow_vars, retry, io, sched, text, prompt, commit, scheduler>>

NextEnsure == EnsureDataFiles

SpecEnsure == InitEnsure /\ [][NextEnsure]_vars

\* ------------------------------ store operations on an earlier session's files
\* The files hold what an earlier session left (a journey under way), and
\* only StorageManager methods are called.
InitStore ==
    /\ state_file \in EarlierStates
    /\ history_file \in EarlierHistories
    /\ InitRun
    /\ InitOther
    /\ text = TextIdle

NextStore ==
    \/ \E content \in PendingContents : SetPendingApproval(content)
    \/ ClearPendingApproval
    \/ StartJourney
    \/ \E day \in CompletedDays : MarkPostCompleted(day)
    \/ IncrementDay
    \/ ResetJourney

SpecStore == InitStore /\ [][NextStore]_vars

\* ---------------------------------------------------- the decision prompt
non_prompt_vars ==
    <<state_file, history_file, workflow_vars, ops, retry, io, sched, text, commit,
      scheduler>>

\* What a human may type: the choices in lower case, upper case and
\* capitalised, with blanks around, nothing, and other words.
TypedLines ==
    PromptChoices
    \cup {upper(c) : c \in PromptChoices}
    \cup {capitalize(c) : c \in PromptChoices}
    \cup {<<>>, <<" ", "r", " ">>, <<"x">>, <<"y", "e", "s">>, <<"1">>}

\* request_approval calls get_user_decision, which shows the prompt.
GetUserDecision ==
    /\ prompt.stage \in {"idle", "returned"}
    /\ prompt.lines < MaxTyped
    /\ prompt' = [prompt EXCEPT !.stage = "asking", !.decision = None]
    /\ UNCHANGED non_prompt_vars

\* A line is typed: Prompt.ask returns it or asks again; what it returns is
\* lowered and looked up in choice_map.
TypeChoice(typed) ==
    /\ prompt.stage = "asking"
    /\ prompt.lines < MaxTyped
    /\ LET answer == prompt_ask(typed)
       IN  prompt' = IF answer = InvalidChoice
                     THEN [prompt EXCEPT !.typed = typed, !.lines = prompt.lines + 1]
                     ELSE [prompt EXCEPT !.typed = typed, !.lines = prompt.lines + 1,
                                         !.stage = "returned",
                                         !.decision = choice_map_get(lower(answer))]
    /\ UNCHANGED non_prompt_vars

NextPrompt ==
    \/ GetUserDecision
    \/ \E typed \in TypedLines : TypeChoice(typed)

SpecPrompt == Init /\ [][NextPrompt]_vars

\* ------------------------------------------------------------ scheduled mode
\* run_scheduled_mode: the main thread reads commands, the scheduler thread
\* fires daily_trigger; both call agent.run() on the same agent and files.
main_run_vars == <<pc, state, pub_calls, last_pub, llm_calls, llm_prompt, runs,
                   run_log>>

RunNodes == {"generate_content", "get_approval", "post_to_linkedin"}

\* scheduler.schedule_daily(daily_trigger); scheduler.start()
StartScheduler ==
    /\ sched.pc = "not_started"
    /\ pc = "idle"
    /\ sched' = [sched EXCEPT !.pc = "waiting"]
    /\ UNCHANGED <<state_file, history_file, workflow_vars, ops, retry, io, text, prompt, commit, scheduler>>

\* The command "now" on the main thread: agent.run().
NowCommand ==
    /\ sched.pc # "not_started"
    /\ ~sched.stop_event
    /\ pc \in {"idle", "END"}
    /\ Run(DayNone, FALSE)

\* The command "quit", Ctrl+C or an exception out of agent.run():
\* scheduler.stop() sets the stop event (and waits at most 5 seconds for the
\* scheduler thread).
StopScheduler ==
    /\ sched.pc # "not_started"
    /\ ~sched.stop_event
    /\ pc \in {"idle", "END", "raised"}
    /\ sched' = [sched EXCEPT !.stop_event = TRUE]
    /\ UNCHANGED <<state_file, history_file, workflow_vars, ops, retry, io, text, prompt, commit, scheduler>>

\* Scheduler._run: schedule.run_pending() finds the job due and calls
\* daily_trigger, which calls agent.run().
DailyTrigger ==
    /\ sched.pc = "waiting"
    /\ ~sched.stop_event
    /\ sched.triggers < MaxTriggers
    /\ sched' = [sched EXCEPT
                    !.pc = "generate_content",
                    !.state = initial_state(get_current_day(state_file), FALSE),
                    !.triggers = sched.triggers + 1]
    /\ UNCHANGED <<state_file, history_file, workflow_vars, ops, retry, io, text, prompt, commit, scheduler>>

\* The nodes of the run on the scheduler thread.
SchedulerGenerateContent ==
    /\ sched.pc = "generate_content"
    /\ \E r \in LLMResponses, h \in HashtagResponses :
          LET out == content_generator_call(history_file, sched.state, r, h)
              next == [sched.state EXCEPT !.generated_content = out.draft,
                                          !.needs_approval = out.draft.success]
          IN  IF out.raised
              THEN sched' = [sched EXCEPT !.pc = "raised"]
              ELSE sched' = [sched EXCEPT !.state = next,
                                          !.pc = IF route_after_generation(next) = "END"
                                                 THEN "waiting"
                                                 ELSE route_after_generation(next)]
    /\ UNCHANGED <<state_file, history_file, workflow_vars, ops, retry, io, text, prompt, commit, scheduler>>

SchedulerGetApproval ==
    /\ sched.pc = "get_approval"
    /\ decisions < MaxDecisions
    /\ \E inp \in ApprovalInputs :
          LET out == approval_handler_call(state_file, sched.state, inp)
          IN  /\ sched' = [sched EXCEPT !.state = out.state, !.pc = "post_to_linkedin"]
              /\ state_file' = out.sf
    /\ decisions' = decisions + 1
    /\ UNCHANGED <<history_file, main_run_vars, ops, retry, io, text, prompt, commit, scheduler>>

SchedulerPostToLinkedin ==
    /\ sched.pc = "post_to_linkedin"
    /\ \E api_ok \in BOOLEAN :
          LET out == poster_call(state_file, history_file, sched.state, api_ok, "id")
          IN  /\ sched' = [sched EXCEPT
                              !.state = out.state,
                              !.pc = IF route_after_posting(out.state) = "END"
                                     THEN "waiting"
                                     ELSE route_after_posting(out.state)]
              /\ state_file' = out.sf
              /\ history_file' = out.hf
    /\ UNCHANGED <<main_run_vars, decisions, ops, retry, io, text, prompt, commit, scheduler>>

NextScheduled ==
    \/ StartScheduler
    \/ NowCommand
    \/ StopScheduler
    \/ DailyTrigger
    \/ GenerateContent
    \/ GetApproval
    \/ PostToLinkedin
    \/ SchedulerGenerateContent
    \/ SchedulerGetApproval
    \/ SchedulerPostToLinkedin

SpecScheduled == Init /\ [][NextScheduled]_vars

\* ------------------------------- the commit of a publish, write by write
\* Number of run() calls and of process crashes looked at.
MaxCommits == 2
MaxCrashes == 2

non_commit_vars == <<workflow_vars, ops, retry, io, sched, text, prompt, scheduler>>

\* The writes post_content makes after create_text_post succeeded, in order.
CommitWrites == {"add_to_history", "last_post_date", "increment_day", "clear_pending"}

\* run() with the default day while the day is in the history:
\* generate_post returns "already posted" and the run ends.
RunRefused ==
    /\ commit.where = "idle"
    /\ commit.runs < MaxCommits
    /\ is_day_posted(history_file, get_current_day(state_file))
    /\ commit' = [commit EXCEPT !.runs = commit.runs + 1, !.refused = TRUE,
                                !.day = get_current_day(state_file)]
    /\ UNCHANGED <<state_file, history_file, non_commit_vars>>

\* run() with the default day up to the successful create_text_post: the
\* draft is generated, approved (request_approval stores the pending
\* snapshot) and published.
RunToPublish(content) ==
    /\ commit.where = "idle"
    /\ commit.runs < MaxCommits
    /\ LET day == get_current_day(state_file)
       IN  /\ ~is_day_posted(history_file, day)
           /\ state_file' = set_pending_approval(state_file,
                                [content |-> content, day |-> day,
                                 topic |-> get_topic_for_day(day).topic,
                                 approved_at |-> "ts"])
           /\ commit' = [commit EXCEPT !.where = "add_to_history", !.day = day,
                                       !.content = content, !.refused = FALSE,
                                       !.runs = commit.runs + 1]
    /\ UNCHANGED <<history_file, non_commit_vars>>

\* self.storage.add_to_history(day, topic, content, post_id)
WriteHistory ==
    /\ commit.where = "add_to_history"
    /\ history_file' = add_to_history(history_file, commit.day,
                                      get_topic_for_day(commit.day).topic,
                                      commit.content, "id")
    /\ commit' = [commit EXCEPT !.where = "last_post_date"]
    /\ UNCHANGED <<state_file, non_commit_vars>>

\* mark_post_completed: self.update_state(last_post_date=...)
WriteLastPostDate ==
    /\ commit.where = "last_post_date"
    /\ state_file' = update_state(state_file, [last_post_date |-> "ts"])
    /\ commit' = [commit EXCEPT !.where = "increment_day"]
    /\ UNCHANGED <<history_file, non_commit_vars>>

\* mark_post_completed: self.increment_day()
WriteIncrementDay ==
    /\ commit.where = "increment_day"
    /\ state_file' = increment_day(state_file)
    /\ commit' = [commit EXCEPT !.where = "clear_pending"]
    /\ UNCHANGED <<history_file, non_commit_vars>>

\* self.storage.clear_pending_approval(); post_content returns.
WriteClearPending ==
    /\ commit.where = "clear_pending"
    /\ state_file' = clear_pending_approval(state_file)
    /\ commit' = [commit EXCEPT !.where = "idle"]
    /\ UNCHANGED <<history_file, non_commit_vars>>

\* The process dies before the next write of post_content.
CommitCrash ==
    /\ commit.where \in CommitWrites
    /\ commit.crashes < MaxCrashes
    /\ commit' = [commit EXCEPT !.where = "crashed", !.crashes = commit.crashes + 1]
    /\ UNCHANGED <<state_file, history_file, non_commit_vars>>

\* The program is started again on the files the crash left.
CommitRestart ==
    /\ commit.where = "crashed"
    /\ commit' = [commit EXCEPT !.where = "idle"]
    /\ UNCHANGED <<state_file, history_file, non_commit_vars>>

NextCommit ==
    \/ RunRefused
    \/ \E content \in LLMTexts : RunToPublish(content)
    \/ WriteHistory
    \/ WriteLastPostDate
    \/ WriteIncrementDay
    \/ WriteClearPending
    \/ CommitCrash
    \/ CommitRestart

SpecCommit == Init /\ [][NextCommit]_vars

\* ------------------------------------ one Scheduler object, call by call
\* Number of start(), of stop() and of run_pending() calls looked at.
MaxStarts == 2
MaxStops == 2
MaxTicks == 2

non_scheduler_vars ==
    <<state_file, history_file, workflow_vars, ops, retry, io, sched, text, prompt,
      commit>>

\* The loop threads that have not left _run.
AliveLoops ==
    {t \in DOMAIN scheduler.loops : scheduler.loops[t] # "exited"}

\* start(): clear the stop event, create a new thread on _run, keep it in
\* self._thread and start it.
SchedulerStart ==
    /\ scheduler.main = "idle"
    /\ Len(scheduler.loops) < MaxStarts
    /\ scheduler' = [scheduler EXCEPT
                        !.stop_event = FALSE,
                        !.loops = Append(scheduler.loops, "check"),
                        !.thread = Len(scheduler.loops) + 1]
    /\ UNCHANGED <<state_file, history_file, non_scheduler_vars>>

\* _run of thread t at "while not self._stop_event.is_set()": leave the
\* loop, or call schedule.run_pending() and go to sleep.
LoopCheck(t) ==
    /\ t \in DOMAIN scheduler.loops
    /\ scheduler.loops[t] = "check"
    /\ scheduler.stop_event \/ scheduler.ticks < MaxTicks
    /\ scheduler' = [scheduler EXCEPT
                        !.loops[t] = IF scheduler.stop_event THEN "exited" ELSE "sleep",
                        !.ticks = IF scheduler.stop_event THEN scheduler.ticks
                                  ELSE scheduler.ticks + 1]
    /\ UNCHANGED <<state_file, history_file, non_scheduler_vars>>

\* time.sleep(60) of thread t is over.
LoopWake(t) ==
    /\ t \in DOMAIN scheduler.loops
    /\ scheduler.loops[t] = "sleep"
    /\ scheduler' = [scheduler EXCEPT !.loops[t] = "check"]
    /\ UNCHANGED <<state_file, history_file, non_scheduler_vars>>

\* stop(): set the stop event; with a thread, enter join(timeout=5),
\* without one return at once.
SchedulerStop ==
    /\ scheduler.main = "idle"
    /\ scheduler.stops < MaxStops
    /\ scheduler' = [scheduler EXCEPT
                        !.stop_event = TRUE,
                        !.stops = scheduler.stops + 1,
                        !.main = IF scheduler.thread # 0 THEN "join" ELSE "idle",
                        !.stopped = IF scheduler.thread # 0 THEN None ELSE "no thread"]
    /\ UNCHANGED <<state_file, history_file, non_scheduler_vars>>

\* self._thread.join(timeout=5) returns, because the thread has ended or
\* because the 5 seconds are over, and stop() returns.
JoinReturns ==
    /\ scheduler.main = "join"
    /\ scheduler' = [scheduler EXCEPT
                        !.main = "idle",
                        !.stopped = IF scheduler.loops[scheduler.thread] = "exited"
                                    THEN "exited" ELSE "alive"]
    /\ UNCHANGED <<state_file, history_file, non_scheduler_vars>>

NextScheduler ==
    \/ SchedulerStart
    \/ \E t \in 1..MaxStarts : LoopCheck(t)
    \/ \E t \in 1..MaxStarts : LoopWake(t)
    \/ SchedulerStop
    \/ JoinReturns

SpecScheduler == Init /\ [][NextScheduler]_vars

\* ================================================================ claims
posted_items == history_file.posted_items

\* The step is a call of create_text_post that returned success / failure.
PublishSucceeded == pub_calls' = pub_calls + 1 /\ last_pub'.success
PublishFailed == pub_calls' = pub_calls + 1 /\ ~last_pub'.success

\* The day of the run has a PostedItem in the history.
DayInHistory == \E i \in DOMAIN posted_items : posted_items[i].day = state.current_day

\* C1: after any sequence of runs (no reset) the history holds at most one
\* PostedItem for each day.
C1_AtMostOneItemPerDay ==
    \A i, j \in DOMAIN posted_items :
        posted_items[i].day = posted_items[j].day => i = j

\* C2: the edge from publishing back to generation is taken only when the
\* decision handled in that publishing step is Reject; after Approve, Skip,
\* Quit or an unrecognized decision the run ends right after the step.
C2_BackEdgeOnlyOnReject ==
    [][(pc = "post_to_linkedin" /\ state.approval_result.decision # "reject")
          => pc' = "END"]_vars

\* C3: when the decision is Approve and the publishing capability returns
\* success = false, the publishing step leaves history, current_day and
\* pending_approval as they were and the run ends with an unsuccessful
\* posting result.
C3_PublishFailureEndsRun ==
    [][(pc = "post_to_linkedin" /\ state.approval_result.decision = "approve"
            /\ PublishFailed)
          => /\ history_file' = history_file
             /\ state_file'.current_day = state_file.current_day
             /\ state_file'.pending_approval = state_file.pending_approval
             /\ pc' = "END"
             /\ ~state'.posting_result.success]_vars

\* C4: a PostedItem is appended to the history only directly after a
\* publishing call that returned success, exactly one item per such call,
\* with the text that was sent as its content; no other step appends.
C4_AppendOnlyAfterSuccess ==
    [][/\ (history_file'.posted_items # posted_items)
            => /\ pc = "post_to_linkedin"
               /\ PublishSucceeded
               /\ Len(history_file'.posted_items) = Len(posted_items) + 1
               /\ SubSeq(history_file'.posted_items, 1, Len(posted_items)) = posted_items
               /\ history_file'.posted_items[Len(posted_items) + 1].content = last_pub'.text
       /\ PublishSucceeded
            => Len(history_file'.posted_items) = Len(posted_items) + 1]_vars

\* A run that appended an item after a successful publishing call has ended.
C4_Witness ==
    /\ pc = "END"
    /\ Len(posted_items) = 1
    /\ pub_calls = 1
    /\ last_pub.success
    /\ posted_items[1].content = last_pub.text

\* C5: for every day d in 1..89 and every store state, after a successful
\* publish of day d through the workflow is_day_posted(d) is true and
\* get_current_day() equals d + 1.
C5_PublishAdvancesToNextDay ==
    [][(pc = "post_to_linkedin" /\ PublishSucceeded
            /\ state.approval_result.day \in 1..(TOTAL_DAYS - 1))
          => /\ is_day_posted(history_file', state.approval_result.day)
             /\ get_current_day(state_file') = state.approval_result.day + 1]_vars

\* C6: current_day always lies in 1..TOTAL_DAYS+1, and a successful publish
\* performed while current_day is 90 advances current_day to 91.
C6_DayCappedAtTotalPlusOne ==
    /\ [](state_file.current_day \in 1..(TOTAL_DAYS + 1))
    /\ [][(pc = "post_to_linkedin" /\ PublishSucceeded
               /\ state_file.current_day = TOTAL_DAYS)
             => state_file'.current_day = TOTAL_DAYS + 1]_vars

\* C7: generate_post(day) for a day that already has a PostedItem returns a
\* failed draft flagged duplicate, without invoking the generation
\* capability.
C7_GenerateRefusesPostedDay ==
    [][(pc = "generate_content" /\ state.regenerate_feedback = None /\ DayInHistory)
          => /\ pc' = "END"
             /\ ~state'.generated_content.success
             /\ state'.generated_content.duplicate
             /\ llm_calls' = llm_calls
             /\ llm_prompt' = Absent]_vars

\* A run for a posted day ended with the duplicate draft of generate_post.
C7_Witness ==
    /\ pc = "END"
    /\ DayInHistory
    /\ state.regenerate_feedback = None
    /\ state.generated_content # Absent
    /\ state.generated_content.duplicate
    /\ llm_calls = 0

\* C8: regenerate_post(day, feedback) returns a failed AlreadyPosted draft
\* whenever the day already has a PostedItem in the history.
C8_RegenerateRefusesPostedDay ==
    [][(pc = "generate_content" /\ state.regenerate_feedback # None /\ DayInHistory)
          => /\ pc' = "END"
             /\ ~state'.generated_content.success
             /\ state'.generated_content.duplicate]_vars

\* C9: when generation returns a failed draft the run ends at the
\* generation stage: approval is never entered with a failed draft, the
\* publishing capability is not called, and history, current_day and
\* pending_approval are unchanged.
C9_FailedDraftEndsRun ==
    /\ [](pc \in {"get_approval", "post_to_linkedin"}
            => state.generated_content # Absent /\ state.generated_content.success)
    /\ [][(pc = "generate_content" /\ pc' # "raised"
               /\ ~state'.generated_content.success)
             => /\ pc' = "END"
                /\ UNCHANGED <<state_file, history_file, pub_calls, last_pub>>]_vars

\* A run ended at the generation stage with a failed draft, before any
\* approval or publishing.
C9_Witness ==
    /\ pc = "END"
    /\ state.generated_content # Absent
    /\ ~state.generated_content.success
    /\ state.approval_result = Absent
    /\ pub_calls = 0

\* C10: when a draft is rejected with non-empty feedback f, generation is
\* re-entered for the same day with f attached, the next draft is marked
\* regenerated, and the Reject step changes neither current_day nor history
\* and makes no call to the publishing capability.
C10_RejectWithFeedbackRegenerates ==
    /\ [][(pc = "post_to_linkedin" /\ state.approval_result.decision = "reject"
               /\ state.approval_result.feedback # None)
             => /\ pc' = "generate_content"
                /\ state'.current_day = state.current_day
                /\ state'.regenerate_feedback = state.approval_result.feedback
                /\ UNCHANGED <<state_file, history_file, pub_calls, last_pub>>]_vars
    /\ [][(pc = "generate_content" /\ state.approval_result # Absent
               /\ state.approval_result.decision = "reject"
               /\ state.approval_result.feedback # None)
             => /\ llm_prompt' = [day |-> state.current_day,
                                  feedback |-> state.approval_result.feedback]
                /\ pc' # "raised"
                      => /\ pc' = "get_approval"
                         /\ state'.generated_content.success
                         /\ state'.generated_content.regenerated
                         /\ state'.generated_content.day = state.current_day]_vars

\* The draft shown after a rejection with feedback is a regenerated one.
C10_Witness ==
    /\ pc = "get_approval"
    /\ state.approval_result # Absent
    /\ state.approval_result.decision = "reject"
    /\ state.approval_result.feedback = "more examples"
    /\ llm_prompt # Absent
    /\ llm_prompt.feedback = "more examples"
    /\ state.generated_content.regenerated

\* C11: when the interactive approval gate resolves to Approve (directly or
\* after an edit confirmed with 'post'), pending_approval holds the approved
\* content, day and topic before the publishing capability is called.
C11_SnapshotBeforePublish ==
    /\ [][(pc = "get_approval" /\ ~state.auto_approve
               /\ state'.approval_result.decision = "approve")
             => /\ state_file'.pending_approval # Absent
                /\ state_file'.pending_approval.content = state'.approval_result.content
                /\ state_file'.pending_approval.day = state'.approval_result.day
                /\ state_file'.pending_approval.topic = state'.approval_result.topic]_vars
    /\ [][(pc = "post_to_linkedin" /\ pub_calls' = pub_calls + 1
               /\ ~state.approval_result.auto_approved)
             => /\ state_file.pending_approval # Absent
                /\ state_file.pending_approval.content = last_pub'.text
                /\ state_file.pending_approval.day = state.approval_result.day
                /\ state_file.pending_approval.topic = state.approval_result.topic]_vars

\* An edited text confirmed with 'post' is about to be published and is the
\* content of the snapshot.
C11_Witness ==
    /\ pc = "post_to_linkedin"
    /\ state.approval_result.decision = "approve"
    /\ state.approval_result.edited
    /\ state.approval_result.content = <<"e">>
    /\ state_file.pending_approval # Absent
    /\ state_file.pending_approval.content = <<"e">>

\* C12: the approval gate writes the pending_approval snapshot only when the
\* decision it returns is Approve; when it returns Reject (including an edit
\* not confirmed), Skip or Quit, pending_approval and status are unchanged.
C12_SnapshotOnlyOnApprove ==
    [][(pc = "get_approval" /\ state'.approval_result.decision # "approve")
          => /\ state_file'.pending_approval = state_file.pending_approval
             /\ state_file'.status = state_file.status]_vars

\* C15: handling a Skip decision always succeeds and, from every store
\* state, increases current_day by exactly 1, appends nothing to history,
\* makes no call to the publishing capability and leaves pending_approval
\* null.
C15_SkipAdvancesOneDay ==
    [][(pc = "post_to_linkedin" /\ state.approval_result.decision = "skip")
          => /\ state'.posting_result.success
             /\ state_file'.current_day = state_file.current_day + 1
             /\ history_file' = history_file
             /\ pub_calls' = pub_calls
             /\ state_file'.pending_approval = Absent]_vars

\* C16: from the moment Quit is chosen until the run returns, neither
\* capability is called, history and current_day are unchanged, and the
\* final state carries quit_requested = true.
C16_QuitEndsRunWithoutEffect ==
    [][(pc = "post_to_linkedin" /\ state.approval_result.decision = "quit")
          => /\ pc' = "END"
             /\ state'.quit_requested
             /\ history_file' = history_file
             /\ state_file'.current_day = state_file.current_day
             /\ pub_calls' = pub_calls
             /\ llm_calls' = llm_calls]_vars

\* C19: no stage failure escapes run() as an uncaught exception: when the
\* generation capability fails, run() still returns a final state whose
\* generated_content is a failed draft.
C19_NoExceptionLeavesRun == pc # "raised"

\* C13: in every reachable state of the persisted JourneyState, after any
\* sequence of store operations and workflow runs, pending_approval is
\* non-null if and only if status is "pending_approval".
C13_PendingIffStatus ==
    (state_file.pending_approval # Absent) <=> (state_file.status = "pending_approval")

\* C14: current_day never decreases across store operations and workflow
\* runs, except by reset_journey (the step that rewrites both files to their
\* defaults).
C14_DayNeverDecreases ==
    [][state_file'.current_day < state_file.current_day
          => (state_file' = reset_journey.sf /\ history_file' = reset_journey.hf)]_vars

\* The rate-limited failures among the invocations of the call so far.
RateLimitedFailures ==
    {i \in DOMAIN retry.log : ~retry.log[i].ok /\ is_rate_limited(retry.log[i].error)}

\* C20: one call of _invoke_with_retry invokes the generation capability at
\* most 3 times; it returns the first successful response; a failure that
\* does not signal rate limiting propagates at once with no wait and no
\* further attempt; the k-th rate-limited failure is followed by a wait of
\* 30*k seconds; and the exhaustion error is raised exactly when all 3
\* attempts failed with rate limiting.
C20_RetryContract ==
    LET n == Len(retry.log)
        done == retry.where \in {"returned", "raised"}
    IN  /\ n <= 3
        /\ \A i \in 1..(n - 1) : i \in RateLimitedFailures
        /\ (n > 0 /\ retry.log[n].ok)
              => /\ retry.where = "returned"
                 /\ retry.result = retry.log[n].text
        /\ retry.where = "returned" => (n > 0 /\ retry.log[n].ok)
        /\ (n > 0 /\ ~retry.log[n].ok /\ n \notin RateLimitedFailures)
              => /\ retry.where = "raised"
                 /\ retry.error = retry.log[n].error
                 /\ Len(retry.waits) = n - 1
        /\ \A k \in DOMAIN retry.waits : retry.waits[k] = 30 * k
        /\ Len(retry.waits) = Cardinality(RateLimitedFailures)
                                 - (IF retry.where = "sleep" THEN 1 ELSE 0)
        /\ (retry.where = "raised" /\ retry.error = MaxRetriesExceeded)
              <=> (done /\ Cardinality(RateLimitedFailures) = 3)

\* The call that was rate limited three times: waits of 30, 60 and 90
\* seconds, then the exhaustion error.
C20_Witness ==
    /\ retry.where = "raised"
    /\ retry.error = MaxRetriesExceeded
    /\ retry.waits = <<30, 60, 90>>
    /\ Len(retry.log) = 3

\* C18: each write of the state file or the history file is all-or-nothing:
\* a concurrent reader, or a restart after a crash during the write, finds a
\* complete document in the file, never an empty or partially written one.
C18_WritesAllOrNothing ==
    io.observed # Absent => io.observed.doc.ok

\* C17: at most one run() of the workflow executes at any time: a run
\* started by the daily trigger on the scheduler thread and a run started by
\* the command "now" on the main thread never overlap.
C17_RunsNeverOverlap ==
    ~(pc \in RunNodes /\ sched.pc \in RunNodes)

\* C21: for every input longer than MAX_POST_LENGTH, _truncate_content
\* returns a prefix of the input of length at most MAX_POST_LENGTH; when the
\* text before the cut point (MAX_POST_LENGTH - 100) has a paragraph break at
\* or after 70% of the cut point, the output ends exactly at the last such
\* break; otherwise the output is the hard cut.
C21_TruncationLaw ==
    (text.stage = "truncated" /\ Len(text.input) > MAX_POST_LENGTH) =>
        LET cut == MAX_POST_LENGTH - 100
            late_breaks == {i \in 0..(cut - 2) :
                              /\ text.input[i + 1] = "\n"
                              /\ text.input[i + 2] = "\n"
                              /\ 10 * i >= 7 * cut}
        IN  /\ Len(text.output) <= MAX_POST_LENGTH
            /\ text.output = SubSeq(text.input, 1, Len(text.output))
            /\ IF late_breaks # {}
               THEN \E i \in late_breaks :
                       /\ \A j \in late_breaks : j <= i
                       /\ Len(text.output) = i
               ELSE Len(text.output) = cut

\* A text cut at its paragraph break lying exactly at 70% of the cut point.
C21_Witness ==
    /\ text.stage = "truncated"
    /\ Len(text.input) > MAX_POST_LENGTH
    /\ Len(text.output) = 2030
    /\ text.input[2031] = "\n"

\* C22: the content of every PostedItem in the history, and of every
\* successful draft returned by generate_post or regenerate_post, has at most
\* MAX_POST_LENGTH characters.
C22_ContentWithinLimit ==
    /\ \A i \in DOMAIN history_file.posted_items :
          Len(history_file.posted_items[i].content) <= MAX_POST_LENGTH
    /\ text.stage = "drafted" => Len(text.output) <= MAX_POST_LENGTH

\* C23: when the last 200 characters of the (possibly truncated) content
\* hold no '#', the hashtag call is made exactly once and the returned
\* content is the content, a separator and a suffix holding '#'; when they
\* hold a '#', no hashtag call is made and the content is returned as it is.
C23_HashtagLaw ==
    text.stage = "drafted" =>
        LET content == IF Len(text.input) > MAX_POST_LENGTH
                       THEN truncate_content(text.input) ELSE text.input
            n == Len(content)
            tail_has_hash == \E i \in 1..n : i > n - 200 /\ content[i] = "#"
        IN  IF tail_has_hash
            THEN text.calls = 1 /\ text.output = content
            ELSE /\ text.calls = 2
                 /\ Len(text.output) > n + Len(Separator)
                 /\ SubSeq(text.output, 1, n + Len(Separator)) = content \o Separator
                 /\ \E i \in (n + Len(Separator) + 1)..Len(text.output) :
                       text.output[i] = "#"

\* C24: get_user_decision maps each of approve, reject, edit, skip, quit
\* and each one-letter abbreviation, in any letter case, to the full word of
\* the same action, and every other input string to approve.
C24_DecisionCoverage ==
    prompt.lines > 0 =>
        /\ prompt.stage = "returned"
        /\ \A d \in Decisions :
              lower(prompt.typed) \in {word(d), SubSeq(word(d), 1, 1)}
                 => prompt.decision = d
        /\ (\A d \in Decisions :
               lower(prompt.typed) \notin {word(d), SubSeq(word(d), 1, 1)})
              => prompt.decision = "approve"

\* C25: after reset_journey(), from any prior store state,
\* get_current_day() is 1, get_progress().total_posts is 0, the history has
\* no PostedItem, pending_approval is null and status is "not_started".
C25_ResetLaw ==
    [][ResetJourney
          => /\ get_current_day(state_file') = 1
             /\ get_progress(state_file', history_file').total_posts = 0
             /\ history_file'.posted_items = <<>>
             /\ state_file'.pending_approval = Absent
             /\ state_file'.status = "not_started"]_vars

\* A reset as the second operation on the files of a journey under way
\* (current_day at least 2): both files hold the defaults again.
C25_Witness ==
    /\ ops = 2
    /\ state_file.current_day = 1
    /\ state_file.started_at = None
    /\ state_file.status = "not_started"
    /\ history_file.posted_items = <<>>

\* C26: _ensure_data_files never overwrites and is idempotent: a history or
\* state file that exists keeps its contents, a missing file is created
\* with the default empty structure, and a second call changes nothing.
C26_EnsureNeverOverwrites ==
    [][EnsureDataFiles
          => /\ state_file # Missing => state_file' = state_file
             /\ history_file # Missing => history_file' = history_file
             /\ state_file = Missing
                   => state_file' = [current_day |-> 1, started_at |-> None,
                                     last_post_date |-> None,
                                     pending_approval |-> Absent,
                                     status |-> "not_started"]
             /\ history_file = Missing
                   => history_file' = [posted_items |-> <<>>, last_updated |-> None,
                                       total_posts |-> 0]
             /\ ops > 0 => (state_file' = state_file /\ history_file' = history_file)]_vars

\* Two calls made: the state file was created with the defaults, the
\* history of an earlier session is still there.
C26_Witness ==
    /\ ops = 2
    /\ state_file = DefaultState
    /\ history_file \in EarlierHistories
    /\ Len(history_file.posted_items) = 2

\* C27: a run started with auto_approve = true asks for no human input,
\* resolves a successful draft to Approve with the draft's own content, and
\* ends after at most one generation and at most one call of the publishing
\* capability.
C27_AutoApproveRun ==
    /\ [](state.auto_approve => (run_log.gens <= 1 /\ pub_calls <= 1))
    /\ [][(pc = "get_approval" /\ state.auto_approve)
             => /\ decisions' = decisions
                /\ state'.approval_result.decision = "approve"
                /\ state'.approval_result.content = state.generated_content.content]_vars
    /\ [][(pc = "post_to_linkedin" /\ state.auto_approve) => pc' = "END"]_vars

\* An auto-approved run that published and returned.
C27_Witness ==
    /\ state.auto_approve
    /\ pc = "END"
    /\ run_log.gens = 1
    /\ run_log.decisions = <<"approve">>
    /\ pub_calls = 1
    /\ last_pub.success

\* C28: after every Reject decision, with or without feedback and including
\* an edit that was not confirmed, the next draft of the run is produced by
\* the regenerate operation (marked regenerated).
C28_RejectAlwaysRegenerates ==
    [][(/\ pc = "generate_content"
        /\ run_log.decisions # <<>>
        /\ run_log.decisions[Len(run_log.decisions)] = "reject"
        /\ pc' = "get_approval")
          => state'.generated_content.regenerated]_vars

\* C29: on the Edit path the decision carries the replacement text when it
\* is not blank and CANCEL was not entered, and the original draft content
\* otherwise; 'post' resolves to Approve with that content, 'do not post' to
\* Reject, and after that Reject the publishing capability is not called for
\* the draft.
C29_EditPath ==
    /\ []((pc = "get_approval" /\ ~state.auto_approve) =>
            \A inp \in ApprovalInputs :
               inp.decision = "edit" =>
                  LET result == request_approval(state_file, state.generated_content,
                                                 inp).result
                      blank == \A i \in DOMAIN inp.typed : inp.typed[i] \in {" ", "\n"}
                  IN  /\ result.content =
                            IF inp.typed # <<"CANCEL">> /\ ~blank
                            THEN inp.typed ELSE state.generated_content.content
                      /\ result.decision = IF inp.post_edited THEN "approve" ELSE "reject")
    /\ [][(/\ pc = "post_to_linkedin"
            /\ state.approval_result.edited
            /\ state.approval_result.decision = "reject")
             => (pub_calls' = pub_calls /\ history_file' = history_file)]_vars

\* An edited text was answered with 'do not post' and the run went back to
\* generation without a publish call.
C29_Witness ==
    /\ pc = "generate_content"
    /\ state.approval_result # Absent
    /\ state.approval_result.edited
    /\ state.approval_result.decision = "reject"
    /\ state.approval_result.content = <<"e">>
    /\ pub_calls = 0

\* The decisions of the run so far are all Reject.
OnlyRejects == \A i \in DOMAIN run_log.decisions : run_log.decisions[i] = "reject"

C31_HistoryCounts ==
    /\ history_file.total_posts = Len(posted_items)
    /\ \A i \in DOMAIN posted_items :
          posted_items[i].char_count = Len(posted_items[i].content)
    /\ reset_journey.hf.total_posts = Len(reset_journey.hf.posted_items)

\* Two publishes were recorded, one of them of a text of two characters.
C31_Witness ==
    /\ history_file.total_posts = 2
    /\ \E i \in DOMAIN posted_items : posted_items[i].char_count = 2

\* C32: in _invoke_with_retry every backoff wait is followed by another
\* invocation of the generation capability: after the last allowed attempt
\* failed with rate limiting the exhaustion error is raised without a
\* further wait.
C32_WaitThenRetry ==
    /\ [][retry.where = "sleep" => retry'.where = "try"]_vars
    /\ [](retry.error = MaxRetriesExceeded => Len(retry.waits) < Len(retry.log))

\* C33: between runs, after any sequence of completed run(day) calls with
\* arbitrary explicit day arguments and decisions, the day at current_day
\* has no PostedItem in the history unless day 90 has been posted, so a
\* run() with the default day does not end in AlreadyPosted before the
\* journey is finished.
C33_CurrentDayUnposted ==
    pc \in {"idle", "END"} =>
        (is_day_posted(history_file, get_current_day(state_file))
            => is_day_posted(history_file, TOTAL_DAYS))

\* C36: all drafts generated, all decisions taken and every publish or skip
\* performed within one run(day) refer to that same day, also after a skip
\* or publish inside the run has changed the store's current_day.
C36_OneDayPerRun ==
    /\ [][(pc \in RunNodes) => (state'.current_day = state.current_day)]_vars
    /\ [](/\ llm_prompt # Absent => llm_prompt.day = state.current_day
          /\ state.generated_content # Absent
                => state.generated_content.day = state.current_day
          /\ (state.approval_result # Absent
                /\ state.approval_result.decision \in Decisions)
                => state.approval_result.day = state.current_day
          /\ (state.posting_result # Absent
                /\ state.posting_result.action \in {"posted", "failed", "skipped"})
                => state.posting_result.day = state.current_day)
    /\ [][PublishSucceeded =>
            /\ Len(history_file'.posted_items) = Len(posted_items) + 1
            /\ history_file'.posted_items[Len(posted_items) + 1].day
                  = state.current_day]_vars

\* A publish inside the run moved current_day on, and the draft generated
\* after it in the same run is again one of the run's own day.
C36_Witness ==
    /\ pc = "get_approval"
    /\ pub_calls = 1
    /\ last_pub.success
    /\ get_current_day(state_file) # state.current_day
    /\ run_log.gens = 3
    /\ state.generated_content.day = state.current_day

\* C37: in auto_approve mode the approval stage performs no write to the
\* store: pending_approval and status (the whole state file, and the
\* history) are the same before and after the approval stage, so a publish
\* failure in an auto-approved run changes nothing either and leaves no
\* pending snapshot of the approved draft.
C37_AutoApproveWritesNothing ==
    /\ [][(pc = "get_approval" /\ state.auto_approve)
            => (state_file' = state_file /\ history_file' = history_file)]_vars
    /\ [][(pc = "post_to_linkedin" /\ state.auto_approve /\ PublishFailed)
            => (state_file' = state_file /\ history_file' = history_file)]_vars
    /\ []((runs = 1 /\ state.auto_approve) => state_file.pending_approval = Absent)

\* An auto-approved run ended on a publish failure with nothing pending.
C37_Witness ==
    /\ pc = "END"
    /\ state.auto_approve
    /\ state.approval_result # Absent
    /\ state.approval_result.auto_approved
    /\ state.posting_result # Absent
    /\ state.posting_result.action = "failed"
    /\ state_file.pending_approval = Absent
    /\ state_file.status = "not_started"

\* The journey is finished: current_day is 90 and day 90 has a PostedItem.
JourneyFinished ==
    /\ get_current_day(state_file) = TOTAL_DAYS
    /\ TOTAL_DAYS \in get_posted_days(history_file)

\* C38: once day 90 has a PostedItem and current_day is 90, that stays so,
\* and every later run() with the default day ends at the generation stage
\* with AlreadyPosted, calls neither the generation nor the publishing
\* capability, and leaves both persisted files unchanged.
C38_FinishedJourneyRefusesRuns ==
    /\ [][JourneyFinished => JourneyFinished']_vars
    /\ [][(/\ JourneyFinished
            /\ pc = "generate_content"
            /\ run_log.gens = 0
            /\ state.current_day = get_current_day(state_file))
             => /\ pc' = "END"
                /\ ~state'.generated_content.success
                /\ state'.generated_content.duplicate
                /\ llm_calls' = 0
                /\ pub_calls' = 0
                /\ state_file' = state_file
                /\ history_file' = history_file]_vars

\* Day 90 was published by the first run, and the second run, of the
\* default day, ended with the refusal.
C38_Witness ==
    /\ JourneyFinished
    /\ runs = 2
    /\ pc = "END"
    /\ state.current_day = TOTAL_DAYS
    /\ state.generated_content # Absent
    /\ state.generated_content.duplicate
    /\ llm_calls = 0
    /\ pub_calls = 0

\* The run whose graph state is st took one decision path to a successful
\* publish, without a rejection before it.
PublishedOnce(st) ==
    /\ st # Absent
    /\ st.posting_result # Absent
    /\ st.posting_result.action = "posted"
    /\ st.posting_result.success
    /\ ~st.needs_regeneration

\* C35: when a scheduler-triggered run and a manual run in scheduled mode
\* (overlapping or not) were both approved and published successfully
\* before the last days of the journey, no
\* day is posted twice and no state update is lost: the history has gained
\* two PostedItems with different days and current_day has advanced by 2.
C35_OverlapKeepsDaysApart ==
    (/\ runs = 1
     /\ sched.triggers = 1
     /\ PublishedOnce(state)
     /\ PublishedOnce(sched.state)
     /\ state.current_day + 2 <= TOTAL_DAYS)
       => /\ Len(posted_items) = 2
          /\ posted_items[1].day # posted_items[2].day
          /\ state.posting_result.day # sched.state.posting_result.day
          /\ LET first == IF state.current_day < sched.state.current_day
                          THEN state.current_day ELSE sched.state.current_day
             IN  get_current_day(state_file) = first + 2

\* C34: if the process crashes at any point between the file writes that
\* commit a successful publish (history append, last_post_date update,
\* current_day increment, pending clear) and is restarted, the store is
\* never left with a PostedItem for day d while current_day still equals
\* d < 90, so a restarted run() with the default day is not refused and
\* can still advance the journey.
C34_CrashKeepsJourneyAdvancing ==
    /\ (commit.where \in {"crashed", "idle"})
          => ~(/\ get_current_day(state_file) < TOTAL_DAYS
               /\ is_day_posted(history_file, get_current_day(state_file)))
    /\ commit.refused => commit.day = TOTAL_DAYS

\* C39: for one Scheduler object, across any sequence of start() and stop()
\* calls, at most one background loop thread is running run_pending at any
\* time, and when stop() returns that loop thread has exited.
C39_OneLoopThread ==
    /\ Cardinality(AliveLoops) <= 1
    /\ scheduler.stopped # "alive"

====
